---- MODULE Spec2Model ----
(***************************************************************************)
(* Attendance capture-and-record pipeline.                                 *)
(*                                                                         *)
(* Server: src/server.js holds two deployable versions of the server, the  *)
(* in-memory version (lines 1-222) and the Cloudinary version (lines       *)
(* 223-508).  `version` says which one is deployed.  An async handler is   *)
(* split at its awaits: one action for the synchronous part up to the      *)
(* first await, one action per settled promise.                            *)
(*                                                                         *)
(* Client: src/unnamed/part_000, the capture page script.  One action per  *)
(* event-loop task (click handler, promise callback, toBlob callback).     *)
(*                                                                         *)
(* Time is counted in hours since 1970-01-01T00:00Z.  JavaScript           *)
(* `undefined` is Absent.                                                  *)
(***************************************************************************)
EXTENDS Integers, Sequences, FiniteSets, TLC

\* ------------------------------------------------------------------ bounds
MaxReq == 2        \* attendance requests the server receives in one run
ClockStart == 19   \* the instant of the initial state (23:00 in Dubai)
MaxTicks == 1      \* how many hours the clock advances in one run
MaxLeaves == 1     \* leave requests the server receives in one run
MaxGestures == 3   \* clicks the user makes on the page in one run

\* -------------------------------------------------------------- constants
Absent == "absent"
ADMIN_ID == "EPPI-001"
DubaiOffset == 4

\* localStorage eppi_employer_id and eppi_user_name of the logged-in device.
EMPLOYER_ID == "EPPI-007"
LOGGER_NAME == "Jane Doe"

Versions == {"memory", "cloudinary"}
Slots == 1..MaxReq

\* Requests any HTTP caller may send to POST /api/attendance/mark.
CallerMsgs ==
    [photo : {Absent, "a.jpeg"},
     employerId : {Absent, "EPPI-007"},
     loggerName : {Absent, "Jane Doe"},
     timestamp : {Absent, "1999"},
     fetchNo : {0}]

\* Values of ?employerId= on GET /api/attendance/report.
ReportQueries == {Absent, "", ADMIN_ID, "EPPI-007"}

VARIABLES
    version,    \* which server version is deployed
    clock,      \* the current instant (hours since the epoch)
    reqs,       \* per request slot: the running /api/attendance/mark handler
    records,    \* the Attendance collection, in insertion order
    photos,     \* public ids of the images held by Cloudinary
    rep,        \* the running /api/attendance/report handler
    inflight,   \* the page's requests on their way to the server
    stream,     \* the page's `stream` variable: 0 is null, else a stream id
    live,       \* ids of the acquired camera streams whose tracks still run
    pendingCam, \* getUserMedia promises not settled yet
    videoReady, \* videoFeed has frames (videoWidth > 0)
    captureDisabled, \* captureBtn.disabled
    blobs,      \* toBlob callbacks not run yet: the closure of each
    outstanding,\* fetches not settled yet
    fetchNo,    \* fetches issued so far
    settled,    \* how each fetch settled at the page
    cache,      \* localStorage eppi_latest_date / eppi_latest_time
    hasLatestDisplay, \* the page has both #latestDate and #latestTime
    ui,         \* what the page shows
    lastAlert,  \* the last alert() shown
    gestures,   \* clicks made so far
    users,      \* the User collection
    leaves,     \* the Leave collection, in insertion order
    office      \* the running login, register or leave handler

officeVars == <<users, leaves, office>>
serverVars == <<version, clock, reqs, records, photos, rep, officeVars>>
cameraVars == <<stream, live, pendingCam, videoReady>>
captureVars == <<captureDisabled, blobs, outstanding, fetchNo, settled, cache>>
pageVars == <<hasLatestDisplay, ui, lastAlert>>
clientVars == <<cameraVars, captureVars, pageVars>>
vars == <<serverVars, inflight, clientVars, gestures>>

\* ------------------------------------------------------- pure functions
Pad2(n) == IF n < 10 THEN "0" \o ToString(n) ELSE ToString(n)

\* now.toLocaleDateString('en-US', {timeZone: 'Asia/Dubai', 2-digit ...})
FormatDate(now) ==
    LET day == (now + DubaiOffset) \div 24
    IN  "01/" \o Pad2(day + 1) \o "/1970"

\* now.toLocaleTimeString('en-US', {timeZone: 'Asia/Dubai', hour12: true ...})
FormatTime(now) ==
    LET hour == (now + DubaiOffset) % 24
        h12 == IF hour % 12 = 0 THEN 12 ELSE hour % 12
    IN  Pad2(h12) \o ":00:00 " \o (IF hour < 12 THEN "AM" ELSE "PM")

\* A value inside a template literal: undefined prints as "undefined".
Str(v) == IF v = Absent THEN "undefined" ELSE v

FileName(employerId, ms) == Str(employerId) \o "_" \o ToString(ms)

\* What Cloudinary answers for {folder: 'eppi_attendance', public_id: fileName}.
PublicId(fileName) == "eppi_attendance/" \o fileName
SecureUrl(publicId) == "https://res.cloudinary.com/" \o publicId

\* The paths of AttendanceSchema, and those it requires, per version.
SchemaPaths ==
    {"employerId", "loggerName", "timestamp", "date", "time", "photoPath", "photoUrl"}
RequiredPaths(v) ==
    IF v = "memory"
    THEN {"employerId", "loggerName", "photoPath", "photoUrl"}
    ELSE {"employerId", "loggerName", "photoUrl"}

\* new Attendance(obj): the schema is strict, so a key that is no path of the
\* schema is dropped; timestamp defaults to Date.now.
NewAttendance(obj, now) ==
    [p \in SchemaPaths |->
        IF p \in DOMAIN obj THEN obj[p]
        ELSE IF p = "timestamp" THEN now ELSE Absent]

\* Mongoose validation run by save(): a required String is neither missing nor "".
Validates(doc, v) == \A p \in RequiredPaths(v) : doc[p] \notin {Absent, ""}

NoDoc == [p \in SchemaPaths |-> IF p = "timestamp" THEN 0 ELSE Absent]
NoView == [photoUrl |-> Absent, date |-> Absent, time |-> Absent]
NoResp == [status |-> 0, success |-> FALSE, record |-> NoView]

BadRequest == [status |-> 400, success |-> FALSE, record |-> NoView]
ServerError == [status |-> 500, success |-> FALSE, record |-> NoView]
Recorded(photoUrl, date, time) ==
    [status |-> 200, success |-> TRUE,
     record |-> [photoUrl |-> photoUrl, date |-> date, time |-> time]]

NoMsg ==
    [photo |-> Absent, employerId |-> Absent, loggerName |-> Absent,
     timestamp |-> Absent, fetchNo |-> 0]

FreeSlot ==
    [pc |-> "free", m |-> NoMsg, now |-> 0,
     formattedDate |-> Absent, formattedTime |-> Absent,
     photoUrl |-> Absent, newRecord |-> NoDoc,
     upload |-> "none", db |-> "none", resp |-> NoResp]

NoCache == [date |-> Absent, time |-> Absent]
InitialPage ==
    [cameraSection |-> "none", resultArea |-> "none",
     markAttendanceBtn |-> "Mark Your Attendance", captureBtn |-> "Capture Photo",
     capturedImage |-> Absent, recordDate |-> Absent, recordTime |-> Absent,
     latestDate |-> Absent, latestTime |-> Absent]

NoBody == [username |-> Absent, password |-> Absent, employerId |-> Absent,
           name |-> Absent, details |-> Absent, leaveType |-> Absent]
IdleOffice == [pc |-> "idle", body |-> NoBody, status |-> 0]

\* A handler that never looks for the file.
HasFileUnchecked(m) == TRUE

\* if (!req.file)
HasFile(m) == m.photo # Absent

\* A handler that trusts the timestamp field of the body when there is one.
TimestampFromBody(m, now) == IF m.timestamp = Absent THEN now ELSE Len(m.timestamp)

\* timestamp: now
RecordTimestamp(m, now) == now

\* ---------------------------------------------------------------- Init
InitWith(pages) ==
    /\ version \in Versions
    /\ clock = ClockStart
    /\ reqs = [r \in Slots |-> FreeSlot]
    /\ records = <<>>
    /\ photos = {}
    /\ rep = [pc |-> "idle", asked |-> FALSE, q |-> Absent, read |-> FALSE,
              resp |-> [status |-> 0, body |-> "", rows |-> <<>>]]
    /\ inflight = {}
    /\ stream = 0
    /\ live = {}
    /\ pendingCam = 0
    /\ videoReady = FALSE
    /\ captureDisabled = FALSE
    /\ blobs = <<>>
    /\ outstanding = {}
    /\ fetchNo = 0
    /\ settled = [n \in Slots |-> "none"]
    /\ cache = NoCache
    /\ hasLatestDisplay \in pages
    /\ ui = InitialPage
    /\ lastAlert = "none"
    /\ gestures = 0
    /\ users = {}
    /\ leaves = <<>>
    /\ office = IdleOffice

\* The server, serving any HTTP caller (the page itself is main.html).
Init == InitWith({TRUE})

\* The capture page, which may or may not hold the dashboard's latest-date
\* and latest-time elements, talking to the server.
ClientInit == InitWith(BOOLEAN)

\* Time passes.
Tick ==
    /\ clock < ClockStart + MaxTicks
    /\ clock' = clock + 1
    /\ UNCHANGED <<version, reqs, records, photos, rep, inflight, clientVars, gestures, officeVars>>

\* ------------------------------------------- POST /api/attendance/mark
\* The handler up to its first await, for request m in slot r.
MarkEntry(r, m) ==
    /\ reqs[r].pc = "free"
    /\ \A q \in Slots : q < r => reqs[q].pc # "free"
    /\ IF ~HasFile(m)
       THEN reqs' = [reqs EXCEPT ![r] = [@ EXCEPT !.pc = "done", !.m = m,
                                                   !.resp = BadRequest]]
       ELSE LET now == clock
                formattedDate == FormatDate(now)
                formattedTime == FormatTime(now)
            IN  IF version = "memory"
                THEN reqs' = [reqs EXCEPT ![r] = [@ EXCEPT
                        !.pc = "saving", !.m = m, !.now = now,
                        !.formattedDate = formattedDate,
                        !.formattedTime = formattedTime,
                        !.newRecord = NewAttendance(
                            [employerId |-> m.employerId,
                             loggerName |-> m.loggerName,
                             timestamp |-> RecordTimestamp(m, now),
                             date |-> formattedDate,
                             time |-> formattedTime,
                             photoPath |-> "IN_MEMORY",
                             photoUrl |-> m.photo], clock)]]
                ELSE reqs' = [reqs EXCEPT ![r] = [@ EXCEPT
                        !.pc = "uploading", !.m = m, !.now = now,
                        !.formattedDate = formattedDate,
                        !.formattedTime = formattedTime]]
    /\ UNCHANGED <<records, photos>>

\* A handler that falls back to the in-memory placeholders when the upload fails.
UploadRejectedFallback(r) ==
    LET s == reqs[r]
    IN  /\ reqs' = [reqs EXCEPT ![r] = [@ EXCEPT
                !.pc = "saving", !.upload = "error", !.photoUrl = s.m.photo,
                !.newRecord = NewAttendance(
                    [employerId |-> s.m.employerId,
                     loggerName |-> s.m.loggerName,
                     timestamp |-> s.now,
                     date |-> s.formattedDate,
                     time |-> s.formattedTime,
                     photoPath |-> "IN_MEMORY",
                     photoUrl |-> s.m.photo], clock)]]
        /\ UNCHANGED <<records, photos>>

\* uploadStream rejected: the catch block answers 500.
UploadRejected(r) ==
    /\ reqs' = [reqs EXCEPT ![r] = [@ EXCEPT !.pc = "done", !.upload = "error",
                                                !.resp = ServerError]]
    /\ UNCHANGED <<records, photos>>

\* uploadStream resolved: the image is stored, the record is built and save() begins.
UploadResolved(r) ==
    LET s == reqs[r]
        publicId == PublicId(FileName(s.m.employerId, s.now))
        photoUrl == SecureUrl(publicId)
    IN  /\ photos' = photos \cup {publicId}
        /\ reqs' = [reqs EXCEPT ![r] = [@ EXCEPT
                !.pc = "saving", !.upload = "ok", !.photoUrl = photoUrl,
                !.newRecord = NewAttendance(
                    [employerId |-> s.m.employerId,
                     loggerName |-> s.m.loggerName,
                     timestamp |-> RecordTimestamp(s.m, s.now),
                     date |-> s.formattedDate,
                     time |-> s.formattedTime,
                     photoPath |-> publicId,
                     _Id |-> photoUrl], clock)]]
        /\ UNCHANGED records

\* await uploadStream(...) settles (Cloudinary version).
MarkUploadSettle(r) ==
    /\ reqs[r].pc = "uploading"
    /\ \E ok \in BOOLEAN : IF ok THEN UploadResolved(r) ELSE UploadRejected(r)
    /\ UNCHANGED <<version, clock, rep, inflight, clientVars, gestures, officeVars>>

\* The photoUrl the success response carries.
ResponsePhotoUrl(r) ==
    IF version = "memory" THEN reqs[r].newRecord.photoUrl ELSE reqs[r].photoUrl

\* A save that keeps one record per employee, replacing the earlier one.
MarkSaveUpsert(r) ==
    /\ reqs[r].pc = "saving"
    /\ \E dbOk \in BOOLEAN :
        LET s == reqs[r]
            db == IF dbOk THEN "ok" ELSE "error"
            old == {i \in 1..Len(records) : records[i].employerId = s.newRecord.employerId}
        IN  IF Validates(s.newRecord, version) /\ dbOk
            THEN /\ records' = IF old = {} THEN Append(records, s.newRecord)
                               ELSE [i \in 1..Len(records) |->
                                        IF i \in old THEN s.newRecord ELSE records[i]]
                 /\ reqs' = [reqs EXCEPT ![r] = [@ EXCEPT !.pc = "done", !.db = db,
                        !.resp = Recorded(ResponsePhotoUrl(r), s.formattedDate,
                                          s.formattedTime)]]
            ELSE /\ records' = records
                 /\ reqs' = [reqs EXCEPT ![r] = [@ EXCEPT !.pc = "done", !.db = db,
                        !.resp = ServerError]]
    /\ UNCHANGED <<version, clock, photos, rep, inflight, clientVars, gestures, officeVars>>

\* await newRecord.save() settles: validation first, then the write, which the
\* database accepts (dbOk) or rejects.
MarkSaveSettle(r) ==
    /\ reqs[r].pc = "saving"
    /\ \E dbOk \in BOOLEAN :
        LET s == reqs[r]
            db == IF dbOk THEN "ok" ELSE "error"
        IN  IF Validates(s.newRecord, version) /\ dbOk
            THEN /\ records' = Append(records, s.newRecord)
                 /\ reqs' = [reqs EXCEPT ![r] = [@ EXCEPT !.pc = "done", !.db = db,
                        !.resp = Recorded(ResponsePhotoUrl(r), s.formattedDate,
                                          s.formattedTime)]]
            ELSE /\ records' = records
                 /\ reqs' = [reqs EXCEPT ![r] = [@ EXCEPT !.pc = "done", !.db = db,
                        !.resp = ServerError]]
    /\ UNCHANGED <<version, clock, photos, rep, inflight, clientVars, gestures, officeVars>>

\* The requests that carry every field the record needs.
CompleteMsgs ==
    {m \in CallerMsgs : /\ m.photo # Absent /\ m.employerId # Absent
                        /\ m.loggerName # Absent /\ m.timestamp = Absent}

\* A complete request reaches the handler.
MarkSubmitComplete(r) ==
    /\ \E m \in CompleteMsgs : MarkEntry(r, m)
    /\ UNCHANGED <<version, clock, rep, inflight, clientVars, gestures, officeVars>>

\* A request from any HTTP caller reaches the handler.
MarkSubmit(r) ==
    /\ \E m \in CallerMsgs : MarkEntry(r, m)
    /\ UNCHANGED <<version, clock, rep, inflight, clientVars, gestures, officeVars>>

\* ------------------------------------------ GET /api/attendance/report
\* A check that only asks for some identity.
AccessDeniedIfMissing(requesterId) == requesterId \in {Absent, ""}

\* if (!requesterId || requesterId !== ADMIN_ID)
AccessDenied(requesterId) ==
    requesterId \in {Absent, ""} \/ requesterId # ADMIN_ID

RECURSIVE InsertByTimestamp(_, _)
InsertByTimestamp(rec, sorted) ==
    IF sorted = <<>> THEN <<rec>>
    ELSE IF rec.timestamp < Head(sorted).timestamp THEN <<rec>> \o sorted
    ELSE <<Head(sorted)>> \o InsertByTimestamp(rec, Tail(sorted))

\* A query without the sort: the records in insertion order.
InsertionOrder(recs) == recs

\* Attendance.find({}).sort({timestamp: 1})
RECURSIVE SortByTimestamp(_)
SortByTimestamp(recs) ==
    IF recs = <<>> THEN <<>>
    ELSE InsertByTimestamp(recs[Len(recs)], SortByTimestamp(SubSeq(recs, 1, Len(recs) - 1)))

\* records.map(record => ({date, time, loggerName, employerId, photoUrl}))
ExcelRecords(recs) ==
    [i \in 1..Len(recs) |->
        [date |-> recs[i].date, time |-> recs[i].time,
         loggerName |-> recs[i].loggerName, employerId |-> recs[i].employerId,
         photoUrl |-> recs[i].photoUrl]]

\* The handler up to its first await, for ?employerId=q.
ReportRequest(q) ==
    /\ rep.pc = "idle"
    /\ IF AccessDenied(q)
       THEN rep' = [pc |-> "idle", asked |-> TRUE, q |-> q, read |-> FALSE,
                    resp |-> [status |-> 403, body |-> "Access Denied", rows |-> <<>>]]
       ELSE rep' = [pc |-> "finding", asked |-> TRUE, q |-> q, read |-> FALSE,
                    resp |-> [status |-> 0, body |-> "", rows |-> <<>>]]
    /\ UNCHANGED <<version, clock, reqs, records, photos, inflight, clientVars, gestures, officeVars>>

\* await Attendance.find(...).sort(...) settles; the workbook is filled.
ReportFind ==
    /\ rep.pc = "finding"
    /\ \E ok \in BOOLEAN :
        IF ok
        THEN rep' = [rep EXCEPT !.pc = "writing", !.read = TRUE,
                        !.resp.rows = ExcelRecords(SortByTimestamp(records))]
        ELSE rep' = [rep EXCEPT !.pc = "idle",
                        !.resp = [status |-> 500, body |-> "Failed to generate report.",
                                  rows |-> <<>>]]
    /\ UNCHANGED <<version, clock, reqs, records, photos, inflight, clientVars, gestures, officeVars>>

\* await workbook.xlsx.write(res) settles; res.end().
ReportWrite ==
    /\ rep.pc = "writing"
    /\ rep' = [rep EXCEPT !.pc = "idle", !.resp.status = 200, !.resp.body = "xlsx"]
    /\ UNCHANGED <<version, clock, reqs, records, photos, inflight, clientVars, gestures, officeVars>>

\* ------------------------------- POST /api/login, /api/register, /api/leave/submit
\* One of these three handlers runs at a time; office holds its position, the
\* body it was called with and, once it has answered, the status it sent.
LoginBodies ==
    {[NoBody EXCEPT !.username = "jane", !.password = p] : p \in {"pw", "guess"}}

\* details stands for jobTitle, contactNumber and email together.
RegisterBodies ==
    {[NoBody EXCEPT !.name = LOGGER_NAME, !.employerId = EMPLOYER_ID,
                    !.username = "jane", !.password = p, !.details = d] :
        p \in {Absent, "pw"}, d \in {Absent, "given"}}

\* leaveType stands for leaveType, startDate, endDate and reason together.
LeaveBodies ==
    {[NoBody EXCEPT !.employerId = EMPLOYER_ID, !.name = LOGGER_NAME,
                    !.leaveType = t] : t \in {Absent, "annual"}}

OfficeFree == office.pc \in {"idle", "done"}

\* The login handler up to await User.findOne({username, password}).
LoginRequest(body) ==
    /\ OfficeFree
    /\ office' = [pc |-> "loginFinding", body |-> body, status |-> 0]
    /\ UNCHANGED <<version, clock, reqs, records, photos, rep, users, leaves,
                   inflight, clientVars, gestures>>

\* findOne settles: 200 with the user, 401 without, 500 when the query fails.
LoginSettle ==
    /\ office.pc = "loginFinding"
    /\ \E ok \in BOOLEAN :
        LET found == \E u \in users : /\ u.username = office.body.username
                                      /\ u.password = office.body.password
        IN  office' = [IdleOffice EXCEPT !.pc = "done",
                          !.status = IF ~ok THEN 500 ELSE IF found THEN 200 ELSE 401]
    /\ UNCHANGED <<version, clock, reqs, records, photos, rep, users, leaves,
                   inflight, clientVars, gestures>>

\* if (!name || !employerId || ... || !username || !password)
RegisterIncomplete(body, v) ==
    \/ body.name = Absent \/ body.employerId = Absent
    \/ body.username = Absent \/ body.password = Absent
    \/ (v = "cloudinary" /\ body.details = Absent)

\* The register handler up to await User.findOne({$or: ...}).
RegisterRequest(body) ==
    /\ OfficeFree
    /\ office' = IF RegisterIncomplete(body, version)
                 THEN [IdleOffice EXCEPT !.pc = "done", !.status = 400]
                 ELSE [pc |-> "registerFinding", body |-> body, status |-> 0]
    /\ UNCHANGED <<version, clock, reqs, records, photos, rep, users, leaves,
                   inflight, clientVars, gestures>>

\* findOne settles: 409 when the username or the employer id is taken.
RegisterFind ==
    /\ office.pc = "registerFinding"
    /\ \E ok \in BOOLEAN :
        LET existingUser == \E u \in users : \/ u.username = office.body.username
                                             \/ u.employerId = office.body.employerId
        IN  office' = IF ~ok THEN [IdleOffice EXCEPT !.pc = "done", !.status = 500]
                      ELSE IF existingUser
                           THEN [IdleOffice EXCEPT !.pc = "done", !.status = 409]
                           ELSE [office EXCEPT !.pc = "registerSaving"]
    /\ UNCHANGED <<version, clock, reqs, records, photos, rep, users, leaves,
                   inflight, clientVars, gestures>>

\* new User({...}): the first version's schema has no personal details.
NewUser(body, v) ==
    [name |-> body.name, employerId |-> body.employerId,
     username |-> body.username, password |-> body.password,
     details |-> IF v = "cloudinary" THEN body.details ELSE Absent]

\* await newUser.save() settles.
RegisterSave ==
    /\ office.pc = "registerSaving"
    /\ \E ok \in BOOLEAN :
        IF ok
        THEN /\ users' = users \cup {NewUser(office.body, version)}
             /\ office' = [IdleOffice EXCEPT !.pc = "done", !.status = 200]
        ELSE /\ users' = users
             /\ office' = [IdleOffice EXCEPT !.pc = "done", !.status = 500]
    /\ UNCHANGED <<version, clock, reqs, records, photos, rep, leaves,
                   inflight, clientVars, gestures>>

\* new Leave({...}) with the schema's default status; submittedAt, which no
\* handler reads, is left out.
NewLeave(body) ==
    [employerId |-> body.employerId, loggerName |-> body.name,
     leaveType |-> body.leaveType, status |-> "Pending"]

\* The leave handler up to await newLeaveRequest.save(); only the second
\* version of the server has this endpoint.
LeaveRequest(body) ==
    /\ version = "cloudinary"
    /\ OfficeFree
    /\ Len(leaves) < MaxLeaves
    /\ office' = IF \/ body.employerId = Absent \/ body.name = Absent
                    \/ body.leaveType = Absent
                 THEN [IdleOffice EXCEPT !.pc = "done", !.status = 400]
                 ELSE [pc |-> "leaveSaving", body |-> body, status |-> 0]
    /\ UNCHANGED <<version, clock, reqs, records, photos, rep, users, leaves,
                   inflight, clientVars, gestures>>

\* save() settles; the notification call throws inside its own try block
\* (apiInstance has no sendTransTransactionalEmail) and the handler answers 200.
LeaveSave ==
    /\ office.pc = "leaveSaving"
    /\ \E ok \in BOOLEAN :
        IF ok
        THEN /\ leaves' = Append(leaves, NewLeave(office.body))
             /\ office' = [IdleOffice EXCEPT !.pc = "done", !.status = 200]
        ELSE /\ leaves' = leaves
             /\ office' = [IdleOffice EXCEPT !.pc = "done", !.status = 500]
    /\ UNCHANGED <<version, clock, reqs, records, photos, rep, users,
                   inflight, clientVars, gestures>>

\* A request of the page reaches the handler.
MarkDeliver(r) ==
    /\ \E m \in inflight :
        /\ MarkEntry(r, m)
        /\ inflight' = inflight \ {m}
    /\ UNCHANGED <<version, clock, rep, clientVars, gestures, officeVars>>

\* ------------------------------------------------- the capture page
\* now.toISOString()
ToISOString(now) ==
    "1970-01-" \o Pad2((now \div 24) + 1) \o "T" \o Pad2(now % 24) \o ":00:00.000Z"

\* stream.getTracks().forEach(track => track.stop()); stream = null;
StopTracks ==
    /\ live' = live \ {stream}
    /\ stream' = 0

\* markAttendanceBtn click.
ToggleClick ==
    /\ gestures < MaxGestures
    /\ gestures' = gestures + 1
    /\ IF stream # 0
       THEN /\ StopTracks
            /\ ui' = [ui EXCEPT !.cameraSection = "none",
                                !.markAttendanceBtn = "Mark Your Attendance"]
            /\ UNCHANGED pendingCam
       ELSE /\ ui' = [ui EXCEPT !.cameraSection = "block",
                                !.markAttendanceBtn = "Stop Camera",
                                !.resultArea = "none"]
            /\ pendingCam' = pendingCam + 1
            /\ UNCHANGED <<stream, live>>
    /\ UNCHANGED <<serverVars, inflight, videoReady, captureVars,
                   hasLatestDisplay, lastAlert>>

\* getUserMedia resolved: .then(videoStream => ...).  The new stream is named
\* by the least id no running stream has.  A new srcObject has no frames
\* until its metadata is loaded.
CameraGranted ==
    /\ pendingCam > 0
    /\ LET videoStream == CHOOSE id \in 1..(Cardinality(live) + 1) :
                              id \notin live /\ \A j \in 1..(id - 1) : j \in live
       IN  /\ stream' = videoStream
           /\ live' = live \cup {videoStream}
    /\ pendingCam' = pendingCam - 1
    /\ videoReady' = FALSE
    /\ UNCHANGED <<gestures, serverVars, inflight, captureVars, pageVars>>

\* getUserMedia rejected: .catch(err => alert(...)).
CameraDenied ==
    /\ pendingCam > 0
    /\ pendingCam' = pendingCam - 1
    /\ lastAlert' = "camera"
    /\ UNCHANGED <<gestures, serverVars, inflight, stream, live, videoReady,
                   captureVars, hasLatestDisplay, ui>>

\* videoFeed has loaded the metadata of a running stream: videoWidth > 0.
VideoLoaded ==
    /\ stream \in live
    /\ ~videoReady
    /\ videoReady' = TRUE
    /\ UNCHANGED <<gestures, serverVars, inflight, stream, live, pendingCam,
                   captureVars, pageVars>>

\* A click handler that leaves the button enabled.
LeftEnabledOnCapture == FALSE

\* captureBtn.disabled = true
DisabledOnCapture == TRUE

\* captureBtn click, up to canvas.toBlob(...): a disabled button takes no
\* click.  The canvas has the size of the video, so it has pixels only when
\* the video has frames; toBlob of a canvas without pixels gives null.
CaptureClick ==
    /\ ~captureDisabled
    /\ gestures < MaxGestures
    /\ gestures' = gestures + 1
    /\ fetchNo + Len(blobs) < MaxReq
    /\ captureDisabled' = DisabledOnCapture
    /\ ui' = [ui EXCEPT !.captureBtn = "Recording..."]
    /\ blobs' = Append(blobs, [timestamp |-> ToISOString(clock),
                               blob |-> IF videoReady THEN "jpeg" ELSE "null"])
    /\ UNCHANGED <<serverVars, inflight, cameraVars, outstanding, fetchNo,
                   settled, cache, hasLatestDisplay, lastAlert>>

\* The toBlob callback: the camera is released; formData.append('photo', null,
\* name) throws a TypeError, which ends the callback; otherwise the fetch is
\* issued.
BlobCallback ==
    /\ blobs # <<>>
    /\ LET c == Head(blobs)
       IN  /\ blobs' = Tail(blobs)
           /\ IF stream # 0 THEN StopTracks ELSE UNCHANGED <<stream, live>>
           /\ IF c.blob = "null"
              THEN UNCHANGED <<inflight, outstanding, fetchNo>>
              ELSE /\ fetchNo' = fetchNo + 1
                   /\ outstanding' = outstanding \cup {fetchNo + 1}
                   /\ inflight' = inflight \cup
                        {[photo |-> FileName(EMPLOYER_ID, clock) \o ".jpeg",
                          employerId |-> EMPLOYER_ID,
                          loggerName |-> LOGGER_NAME,
                          timestamp |-> c.timestamp,
                          fetchNo |-> fetchNo + 1]}
    /\ UNCHANGED <<gestures, serverVars, pendingCam, videoReady, captureDisabled,
                   settled, cache, pageVars>>

\* .finally(() => ...)
Finally(page) ==
    [page EXCEPT !.captureBtn = "Capture Photo",
                 !.markAttendanceBtn = "Mark Your Attendance"]

\* The success branch of .then(data => ...), on the page.
ShowSuccess(page, record) ==
    LET shown == [page EXCEPT !.cameraSection = "none", !.resultArea = "block",
                              !.capturedImage = record.photoUrl,
                              !.recordDate = record.date,
                              !.recordTime = record.time]
    IN  IF hasLatestDisplay
        THEN [shown EXCEPT !.latestDate = record.date, !.latestTime = record.time]
        ELSE shown

\* A page that writes the entry only while there is none.
StoreLatestOnce(old, record) ==
    IF hasLatestDisplay /\ old = [date |-> Absent, time |-> Absent]
    THEN [date |-> record.date, time |-> record.time]
    ELSE old

\* The success branch of .then(data => ...), on localStorage.
StoreLatest(old, record) ==
    IF hasLatestDisplay
    THEN [date |-> record.date, time |-> record.time]
    ELSE old

\* The response of fetch n arrives: .then(data => ...) and .finally.
FetchResolved(n) ==
    /\ n \in outstanding
    /\ \E r \in Slots :
        /\ reqs[r].pc = "done"
        /\ reqs[r].m.fetchNo = n
        /\ LET data == reqs[r].resp
           IN  IF data.success
               THEN /\ ui' = Finally(ShowSuccess(ui, data.record))
                    /\ cache' = StoreLatest(cache, data.record)
                    /\ settled' = [settled EXCEPT ![n] = "success"]
                    /\ UNCHANGED lastAlert
               ELSE /\ ui' = Finally(ui)
                    /\ lastAlert' = "server"
                    /\ settled' = [settled EXCEPT ![n] = "failure"]
                    /\ UNCHANGED cache
    /\ outstanding' = outstanding \ {n}
    /\ captureDisabled' = FALSE
    /\ UNCHANGED <<gestures, serverVars, inflight, cameraVars, blobs, fetchNo,
                   hasLatestDisplay>>

\* fetch n rejects (the transport failed): .catch and .finally.  A request
\* that has not reached the server by then is lost; one that has is handled
\* all the same.
FetchFailed(n) ==
    /\ n \in outstanding
    /\ inflight' = {m \in inflight : m.fetchNo # n}
    /\ outstanding' = outstanding \ {n}
    /\ settled' = [settled EXCEPT ![n] = "network"]
    /\ lastAlert' = "network"
    /\ ui' = Finally(ui)
    /\ captureDisabled' = FALSE
    /\ UNCHANGED <<gestures, serverVars, cameraVars, blobs, fetchNo, cache,
                   hasLatestDisplay>>

\* ------------------------------------------------------ specifications
MarkNext ==
    \/ \E r \in Slots : MarkUploadSettle(r)
    \/ \E r \in Slots : MarkSaveSettle(r)

\* The mark endpoint serving any HTTP caller.
Next ==
    \/ Tick
    \/ \E r \in Slots : MarkSubmit(r)
    \/ MarkNext

Spec == Init /\ [][Next]_vars

\* The report endpoint, beside the mark endpoint serving complete requests.
ReportNext ==
    \/ Tick
    \/ \E r \in Slots : MarkSubmitComplete(r)
    \/ MarkNext
    \/ \E q \in ReportQueries : ReportRequest(q)
    \/ ReportFind
    \/ ReportWrite

ReportSpec == Init /\ [][ReportNext]_vars

\* Every endpoint of the server, the mark endpoint serving complete requests.
ServerNext ==
    \/ ReportNext
    \/ \E body \in LoginBodies : LoginRequest(body)
    \/ LoginSettle
    \/ \E body \in RegisterBodies : RegisterRequest(body)
    \/ RegisterFind
    \/ RegisterSave
    \/ \E body \in LeaveBodies : LeaveRequest(body)
    \/ LeaveSave

ServerSpec == Init /\ [][ServerNext]_vars

\* The capture page and the mark endpoint it posts to.
ClientNext ==
    \/ Tick
    \/ ToggleClick
    \/ CameraGranted
    \/ CameraDenied
    \/ VideoLoaded
    \/ CaptureClick
    \/ BlobCallback
    \/ \E r \in Slots : MarkDeliver(r)
    \/ MarkNext
    \/ \E n \in Slots : FetchResolved(n)
    \/ \E n \in Slots : FetchFailed(n)

ClientSpec == ClientInit /\ [][ClientNext]_vars

\* ------------------------------------------------------------ claims
HasPhoto(m) == m.photo # Absent
HasIdentity(m) == m.employerId # Absent /\ m.loggerName # Absent
LastRecord(recs) == recs[Len(recs)]

\* C1: when the Photo Store upload of a submission fails, the handler answers
\* 500 with success: false in that very step and the record collection is
\* left as it was; in the Cloudinary version a record is appended only by a
\* submission whose upload has resolved.
C1_UploadFailureNoRecord ==
    [][\A r \in Slots :
        /\ (reqs[r].pc = "uploading" /\ reqs'[r].upload = "error")
              => /\ reqs'[r].pc = "done"
                 /\ reqs'[r].resp.status = 500
                 /\ ~reqs'[r].resp.success
                 /\ records' = records
        /\ (reqs[r].upload = "error") => (reqs'[r] = reqs[r])
        /\ (version = "cloudinary" /\ reqs[r].pc = "saving" /\ records' # records)
              => \E q \in Slots : /\ reqs[q].upload = "ok"
                                  /\ records' = Append(records, reqs[q].newRecord)
      ]_vars

C1_Witness ==
    \E r \in Slots : /\ reqs[r].pc = "done"
                     /\ reqs[r].upload = "error"
                     /\ reqs[r].resp.status = 500
                     /\ HasIdentity(reqs[r].m)

\* C2: a submission without a photo field is answered 400 with success:
\* false by the step that receives it, and that step changes neither the
\* record collection nor the photo store.
C2_NoPhotoIs400 ==
    [][\A r \in Slots :
        (reqs[r].pc = "free" /\ reqs'[r].pc # "free" /\ ~HasPhoto(reqs'[r].m))
            => /\ reqs'[r].pc = "done"
               /\ reqs'[r].resp.status = 400
               /\ ~reqs'[r].resp.success
               /\ records' = records
               /\ photos' = photos
      ]_vars

C2_Witness ==
    \E r \in Slots : /\ reqs[r].pc = "done"
                     /\ ~HasPhoto(reqs[r].m)
                     /\ HasIdentity(reqs[r].m)
                     /\ reqs[r].resp.status = 400
                     /\ Len(records) > 0

\* C3: a submission with photo, employerId and loggerName whose upload and
\* database write are both accepted is answered success: true, and the step
\* that answers appends exactly one record holding that employerId and
\* loggerName and the photoUrl of the response; success: true is answered
\* only by such a step.
C3_CompleteSubmissionRecorded ==
    [][\A r \in Slots :
        (reqs[r].pc # "done" /\ reqs'[r].pc = "done") =>
            LET s == reqs'[r]
                appended ==
                    /\ Len(records') = Len(records) + 1
                    /\ SubSeq(records', 1, Len(records)) = records
                    /\ LastRecord(records').employerId = s.m.employerId
                    /\ LastRecord(records').loggerName = s.m.loggerName
                    /\ LastRecord(records').photoUrl = s.resp.record.photoUrl
            IN  /\ (HasPhoto(s.m) /\ HasIdentity(s.m) /\ s.upload # "error"
                      /\ s.db = "ok") => (s.resp.success /\ appended)
                /\ s.resp.success => appended
      ]_vars

\* C4: a submission with a photo but without employerId or loggerName is
\* answered 400, has nothing uploaded to the photo store and creates no record.
C4_MissingIdentityIs400 ==
    \A r \in Slots :
        (reqs[r].pc # "free" /\ HasPhoto(reqs[r].m) /\ ~HasIdentity(reqs[r].m))
            => /\ reqs[r].upload = "none"
               /\ reqs[r].pc = "done" => reqs[r].resp.status = 400
               /\ \A i \in 1..Len(records) : records[i] # reqs[r].newRecord

\* C5: two submissions handled at the same server instant that differ only
\* in the client-supplied timestamp field get the same timestamp, date and
\* time, in the record built for them and in the response.
SameButTimestamp(m1, m2) ==
    /\ m1.photo = m2.photo
    /\ m1.employerId = m2.employerId
    /\ m1.loggerName = m2.loggerName

C5_ClientTimestampIgnored ==
    \A r1, r2 \in Slots :
        (/\ reqs[r1].pc \in {"saving", "done"} /\ reqs[r2].pc \in {"saving", "done"}
         /\ HasPhoto(reqs[r1].m) /\ reqs[r1].upload # "error"
         /\ reqs[r2].upload # "error"
         /\ SameButTimestamp(reqs[r1].m, reqs[r2].m)
         /\ reqs[r1].now = reqs[r2].now)
            => /\ reqs[r1].newRecord.timestamp = reqs[r2].newRecord.timestamp
               /\ reqs[r1].newRecord.date = reqs[r2].newRecord.date
               /\ reqs[r1].newRecord.time = reqs[r2].newRecord.time
               /\ reqs[r1].newRecord.timestamp = reqs[r1].now
               /\ (reqs[r1].resp.success /\ reqs[r2].resp.success)
                    => /\ reqs[r1].resp.record.date = reqs[r2].resp.record.date
                       /\ reqs[r1].resp.record.time = reqs[r2].resp.record.time

C5_Witness ==
    \E r1, r2 \in Slots :
        /\ reqs[r1].resp.success /\ reqs[r2].resp.success
        /\ reqs[r1].m.timestamp = Absent /\ reqs[r2].m.timestamp # Absent
        /\ SameButTimestamp(reqs[r1].m, reqs[r2].m)
        /\ reqs[r1].now = reqs[r2].now
        /\ Len(records) = 2
        /\ records[1].timestamp = records[2].timestamp
        /\ records[1].date = "01/02/1970"

\* C6: a report request whose employerId is missing or is not the
\* administrator's is answered 403 without rows or spreadsheet, and its
\* handler never reads the records.
C6_ReportDeniedToOthers ==
    (rep.asked /\ rep.q # ADMIN_ID)
        => /\ rep.pc = "idle"
           /\ rep.resp.status = 403
           /\ rep.resp.rows = <<>>
           /\ rep.resp.body # "xlsx"
           /\ ~rep.read

C6_Witness ==
    /\ rep.asked /\ rep.q = "EPPI-007"
    /\ rep.resp.status = 403
    /\ Len(records) > 0

\* C7: at most one capture is in flight (a toBlob callback not yet run or a
\* fetch not yet settled), and the capture button is disabled while it is.
C7_OneCaptureInFlight ==
    /\ Len(blobs) + Cardinality(outstanding) <= 1
    /\ (blobs # <<>> \/ outstanding # {}) => captureDisabled

C7_Witness ==
    /\ outstanding = {2}
    /\ captureDisabled
    /\ settled[1] # "none"
    /\ \E r \in Slots : reqs[r].m.fetchNo = 1 /\ reqs[r].pc \in {"uploading", "saving"}

\* C8: the page never holds more than one acquired camera stream, and every
\* running stream is the one the page's `stream` variable refers to, so that
\* the next stop toggle or capture releases it.
C8_OneCameraStream ==
    /\ Cardinality(live) <= 1
    /\ live \subseteq {stream}

\* C9: once captureAndSubmit has run to its end (no toBlob callback and no
\* fetch is pending), the capture button is enabled again.
C9_RetryAfterCapture ==
    (blobs = <<>> /\ outstanding = {}) => ~captureDisabled

\* C10 as written: (granting a page that has the latest-date and latest-time
\* elements) once every submission has come to rest, the cache entry is the
\* {date, time} of a most recent record of the collection, and is empty when
\* there is none.
ServerAtRest == \A r \in Slots : reqs[r].pc \in {"free", "done"}

C10_CacheMirrorsLatestRecord ==
    (hasLatestDisplay /\ blobs = <<>> /\ outstanding = {} /\ inflight = {}
       /\ ServerAtRest)
        => IF records = <<>> THEN cache = NoCache
           ELSE \E i \in 1..Len(records) :
                   /\ \A j \in 1..Len(records) :
                         records[j].timestamp <= records[i].timestamp
                   /\ cache = [date |-> records[i].date, time |-> records[i].time]

\* C10 amended: on a page that has the latest-date and latest-time elements
\* the cache entry is the {date, time} of the record returned by the most
\* recent submission whose success response the page received, a record of
\* the collection; it is empty when there was none, and on a page without
\* those elements.
Succeeded == {n \in Slots : settled[n] = "success"}

C10_CacheMirrorsLatestResponse ==
    IF ~hasLatestDisplay \/ Succeeded = {} THEN cache = NoCache
    ELSE LET n == CHOOSE k \in Succeeded : \A j \in Succeeded : j <= k
         IN  \E r \in Slots :
                /\ reqs[r].m.fetchNo = n
                /\ reqs[r].resp.success
                /\ cache = [date |-> reqs[r].resp.record.date,
                            time |-> reqs[r].resp.record.time]
                /\ \E i \in 1..Len(records) :
                      /\ records[i].date = cache.date
                      /\ records[i].time = cache.time
                      /\ records[i].photoUrl = reqs[r].resp.record.photoUrl

C10_Witness ==
    /\ hasLatestDisplay
    /\ settled[1] = "success" /\ settled[2] = "success"
    /\ \E r \in Slots :
          /\ reqs[r].m.fetchNo = 1
          /\ reqs[r].resp.record.date # cache.date

\* C11: attendance records are never deleted and never change: across every
\* step of every endpoint (login, register, mark, leave submit, report) the
\* stored records keep their places and their fields, and the collection only grows.
C11_RecordsImmutable ==
    [][/\ Len(records') >= Len(records)
       /\ \A i \in 1..Len(records) : records'[i] = records[i]]_vars

\* Two records are stored while a user, a leave request and a report exist.
C11_Witness ==
    /\ Len(records) = 2
    /\ users # {}
    /\ rep.read
    /\ office.status = 401

\* The rearrangements of the stored records: each record taken exactly once.
Rearrangements ==
    LET n == Len(records)
    IN  {[i \in 1..n |-> records[p[i]]] :
            p \in {q \in [1..n -> 1..n] : \A i, j \in 1..n : i # j => q[i] # q[j]}}

NonDecreasing(recs) ==
    \A i \in 1..(Len(recs) - 1) : recs[i].timestamp <= recs[i + 1].timestamp

\* C12: the rows the report is filled with are the stored records, each exactly
\* once, in non-decreasing timestamp order, whatever order they were inserted in.
C12_ReportSortedComplete ==
    [][(rep.pc = "finding" /\ rep'.pc = "writing") =>
        \E list \in Rearrangements :
            /\ NonDecreasing(list)
            /\ rep'.resp.rows = ExcelRecords(list)]_vars

\* A report has been filled from two records that were inserted latest first.
C12_Witness ==
    /\ rep.read
    /\ Len(records) = 2
    /\ records[1].timestamp > records[2].timestamp
    /\ Len(rep.resp.rows) = 2
    /\ rep.resp.rows[1].time = records[2].time
    /\ rep.resp.rows[2].time = records[1].time

\* A step in which getUserMedia rejects: a pending request ends, no stream starts.
CameraDeniedStep == pendingCam' = pendingCam - 1 /\ live' = live

\* A click on markAttendanceBtn (a click on captureBtn disables that button).
ToggleStep == gestures' = gestures + 1 /\ captureDisabled' = captureDisabled

\* What a denial does whatever else is pending: it raises the alert, touches no
\* stream and issues no request; requests come from toggle clicks alone, and a
\* toggle click with no stream held issues one.
DenialIsSurfacedNotRetried ==
    [][/\ CameraDeniedStep =>
            /\ lastAlert' = "camera"
            /\ stream' = stream
            /\ gestures' = gestures
       /\ pendingCam' > pendingCam => ToggleStep /\ pendingCam' = pendingCam + 1
       /\ (ToggleStep /\ stream = 0) => pendingCam' = pendingCam + 1]_vars

\* C13: when a camera request is denied the page shows the failure and is left
\* idle, holding no camera stream, so that the next toggle click issues a fresh
\* request; and a camera request is only ever issued by a toggle click.
C13_DenialLeavesIdle ==
    [][/\ CameraDeniedStep =>
            /\ lastAlert' = "camera"
            /\ stream' = 0
            /\ live' = {}
            /\ gestures' = gestures
       /\ pendingCam' > pendingCam => ToggleStep /\ pendingCam' = pendingCam + 1
       /\ (ToggleStep /\ stream = 0) => pendingCam' = pendingCam + 1]_vars

====
